---- MODULE Spec2Model ----
(***************************************************************************)
(* Model of Base::RcuDataNoWait<T,BUFSZ> and Base::RcuDataItem             *)
(* (src/rcu_nowait.h): one publisher thread following the cycle            *)
(* publisherRead -> initUpdate -> write -> commitUpdate, and NumReaders    *)
(* reader threads calling read() and releasing the returned handle.        *)
(*                                                                         *)
(* Every access to an atomic (m_head, m_refCounter) is one step, and the   *)
(* steps of the threads interleave freely.  m_data is a plain array: the   *)
(* publisher's std::swap is two separate stores, and a reader's load of    *)
(* m_data[...] sees whichever pointer is stored at that moment.            *)
(***************************************************************************)
EXTENDS Integers, Naturals, Sequences, FiniteSets, TLC

\* template parameter BUFSZ: ring capacity, a power of two
BUFSZ == 4
\* 'maximum number of concurrent reading threads' allowed by BUFSZ
NumReaders == BUFSZ - 2
\* number of commitUpdate calls explored
MaxCommits == 3
\* the probe counter of one initUpdate call saturates here
MaxProbes == 6

Slots == 0 .. (BUFSZ - 1)
Positions == 0 .. (BUFSZ - 1)
Readers == 1 .. NumReaders
\* nullptr
NoSlot == BUFSZ

\* i & (BUFSZ-1), for the non-negative i the code uses
Mask(i) == i % BUFSZ

VARIABLES
    m_data,     \* std::array<T*,BUFSZ>: position -> slot
    m_head,     \* std::atomic_long
    refCnt,     \* m_refCounter of each slot
    content,    \* payload of each slot (the version number it holds)
    ppc,        \* publisher's position in its cycle
    src,        \* result of publisherRead()
    dst,        \* result of initUpdate()
    first,      \* initUpdate: position of 'first'
    it,         \* initUpdate: position of 'it' (nextPos & (BUFSZ-1))
    tmp,        \* std::swap temporary
    probes,     \* queryRefCount() calls made by the running initUpdate
    rpc,        \* each reader's position in read()
    curHead,    \* read(): curHead
    oldHead,    \* read(): oldHead
    rawP,       \* read(): rawP
    ptr,        \* read(): the unique_ptr / the handle held by the caller
    startHead,  \* m_head when the read() call started
    retries,    \* failed re-checks of the running read() call
    heldVal,    \* payload seen through the handle when read() returned
    obsSlot,    \* slot of the last queryRefCount() of the running initUpdate
    obsCnt,     \* the count that call returned
    pubHist,    \* the values committed so far, in commit order (first: initial)
    retHead,    \* m_head when the read() call returned
    quiet,      \* no reader changed a count since initUpdate started
    freeAtStart, \* some unpublished slot had count zero when initUpdate started
    dataAtStart, \* m_data when the running initUpdate started
    tmpCnt,     \* m_refCounter of the copy the publisher makes of the head item
    incs,       \* acquire() calls made by the running read() call
    decs        \* release() calls made by the running read() call

pubVars == <<ppc, src, dst, first, it, tmp, probes, obsSlot, obsCnt, quiet, freeAtStart, pubHist,
             dataAtStart, tmpCnt>>
rdVars == <<rpc, curHead, oldHead, rawP, ptr, startHead, retries, heldVal, retHead, incs, decs>>
vars == <<m_data, m_head, refCnt, content, pubVars, rdVars>>

\* constructor: std::copy(first, last, begin(m_data)); m_head{} ; m_refCounter{}
Init ==
    /\ m_data = [p \in Positions |-> p]
    /\ m_head = 0
    /\ refCnt = [s \in Slots |-> 0]
    /\ content = [s \in Slots |-> 0 - s]
    /\ ppc = "idle"
    /\ src = NoSlot
    /\ dst = NoSlot
    /\ first = 0
    /\ it = 0
    /\ tmp = NoSlot
    /\ probes = 0
    /\ obsSlot = NoSlot
    /\ obsCnt = 0
    /\ pubHist = <<content[m_data[0]]>>
    /\ retHead = [r \in Readers |-> 0]
    /\ quiet = FALSE
    /\ freeAtStart = FALSE
    /\ rpc = [r \in Readers |-> "idle"]
    /\ curHead = [r \in Readers |-> 0]
    /\ oldHead = [r \in Readers |-> 0]
    /\ rawP = [r \in Readers |-> NoSlot]
    /\ ptr = [r \in Readers |-> NoSlot]
    /\ startHead = [r \in Readers |-> 0]
    /\ retries = [r \in Readers |-> 0]
    /\ heldVal = [r \in Readers |-> 0]
    /\ dataAtStart = m_data
    /\ tmpCnt = 0
    /\ incs = [r \in Readers |-> 0]
    /\ decs = [r \in Readers |-> 0]

\* an acquire() that counts twice
acquireTwice(cnt, s) == [cnt EXCEPT ![s] = @ + 2]
\* RcuDataItem::acquire
acquire(cnt, s) == [cnt EXCEPT ![s] = @ + 1]
\* a release() that loses the decrement
releaseLost(cnt, s) == cnt
\* RcuDataItem::release
release(cnt, s) == [cnt EXCEPT ![s] = @ - 1]
\* RcuDataItem::queryRefCount
queryRefCount(s) == refCnt[s]
\* a copy constructor that copies the count of rhs
ItemCopyKeeps(rhsCnt) == rhsCnt
\* RcuDataItem(const RcuDataItem &rhs) {}: m_refCounter of the new item, given rhs's
ItemCopy(rhsCnt) == 0
\* an operator= that value-initialises the count of *this
ItemAssignZero(thisCnt, rhsCnt) == 0
\* RcuDataItem::operator=: m_refCounter of *this afterwards, { return *this; }
ItemAssign(thisCnt, rhsCnt) == thisCnt

----------------------------------------------------------------------------
\* Publisher

\* a publisherRead that returns the slot after the head
publisherReadNext ==
    /\ ppc = "idle"
    /\ src' = m_data[Mask(m_head + 1)]
    /\ ppc' = "init"
    /\ UNCHANGED <<m_data, m_head, refCnt, content, dst, first, it, tmp, probes,
                   obsSlot, obsCnt, quiet, freeAtStart, pubHist, rdVars>>
    /\ UNCHANGED <<dataAtStart, tmpCnt>>

\* publisherRead(): m_data[curHead & (BUFSZ-1)]
publisherRead ==
    /\ ppc = "idle"
    /\ src' = m_data[Mask(m_head)]
    /\ ppc' = "init"
    /\ UNCHANGED <<m_data, m_head, refCnt, content, dst, first, it, tmp, probes,
                   obsSlot, obsCnt, quiet, freeAtStart, pubHist, rdVars>>
    /\ UNCHANGED <<dataAtStart, tmpCnt>>

Bump(n) == IF n < MaxProbes THEN n + 1 ELSE n

\* a first probe without the pre-increment: nextPos & (BUFSZ-1)
FirstPosNoInc(h) == Mask(h)
\* the position initUpdate probes first: (++nextPos) & (BUFSZ-1)
FirstPos(h) == Mask(h + 1)
\* the position initUpdate probes next: (++nextPos) & (BUFSZ-1)
NextPos(p) == Mask(p + 1)
\* a scan test that no count passes: queryRefCount() >= 0
BusyAlways(s) == queryRefCount(s) >= 0
\* a scan test that lets a count of one pass: queryRefCount() > 1
BusyAboveOne(s) == queryRefCount(s) > 1
\* the test of the scan: queryRefCount() != 0
Busy(s) == queryRefCount(s) # 0

\* initUpdate: nextPos = m_head.load(); first = &m_data[(++nextPos)&(BUFSZ-1)]
initUpdateBegin ==
    /\ ppc = "init"
    /\ first' = FirstPos(m_head)
    /\ it' = FirstPos(m_head)
    /\ probes' = 0
    /\ obsSlot' = NoSlot
    /\ obsCnt' = 0
    /\ quiet' = TRUE
    /\ freeAtStart' = (\E s \in Slots : s # m_data[Mask(m_head)] /\ refCnt[s] = 0)
    /\ ppc' = "iu_first"
    /\ UNCHANGED <<m_data, m_head, refCnt, content, src, dst, tmp, pubHist, rdVars>>
    /\ dataAtStart' = m_data
    /\ UNCHANGED tmpCnt

\* initUpdate: if ((*first)->queryRefCount() != 0) { it = &m_data[(++nextPos)&..] ...} return *first
initUpdateFirst ==
    /\ ppc = "iu_first"
    /\ probes' = Bump(probes)
    /\ obsSlot' = m_data[first]
    /\ obsCnt' = queryRefCount(m_data[first])
    /\ IF Busy(m_data[first])
       THEN /\ it' = NextPos(first)
            /\ ppc' = "iu_scan"
            /\ UNCHANGED dst
       ELSE /\ dst' = m_data[first]
            /\ ppc' = "write"
            /\ UNCHANGED it
    /\ UNCHANGED <<m_data, m_head, refCnt, content, src, first, tmp, quiet,
                   freeAtStart, pubHist, rdVars>>
    /\ UNCHANGED <<dataAtStart, tmpCnt>>

\* initUpdate: while ((*it)->queryRefCount() != 0) it = &m_data[(++nextPos)&(BUFSZ-1)];
initUpdateScan ==
    /\ ppc = "iu_scan"
    /\ probes' = Bump(probes)
    /\ obsSlot' = m_data[it]
    /\ obsCnt' = queryRefCount(m_data[it])
    /\ IF Busy(m_data[it])
       THEN /\ it' = NextPos(it)
            /\ ppc' = "iu_scan"
       ELSE /\ ppc' = "iu_swap1"
            /\ UNCHANGED it
    /\ UNCHANGED <<m_data, m_head, refCnt, content, src, dst, first, tmp, quiet,
                   freeAtStart, pubHist, rdVars>>
    /\ UNCHANGED <<dataAtStart, tmpCnt>>

\* std::swap(*first, *it): tmp = *first; *first = *it;
initUpdateSwap1 ==
    /\ ppc = "iu_swap1"
    /\ tmp' = m_data[first]
    /\ m_data' = [m_data EXCEPT ![first] = m_data[it]]
    /\ ppc' = "iu_swap2"
    /\ UNCHANGED <<m_head, refCnt, content, src, dst, first, it, probes,
                   obsSlot, obsCnt, quiet, freeAtStart, pubHist, rdVars>>
    /\ UNCHANGED <<dataAtStart, tmpCnt>>

\* a swap whose second store is missing (a copy instead of an exchange)
initUpdateSwap2NoStore ==
    /\ ppc = "iu_swap2"
    /\ dst' = m_data[first]
    /\ ppc' = "write"
    /\ UNCHANGED <<m_data, m_head, refCnt, content, src, first, it, tmp, probes,
                   obsSlot, obsCnt, quiet, freeAtStart, pubHist, rdVars>>
    /\ UNCHANGED <<dataAtStart, tmpCnt>>

\* an initUpdate that returns the handle it displaced instead of *first
initUpdateSwap2ReturnsOld ==
    /\ ppc = "iu_swap2"
    /\ m_data' = [m_data EXCEPT ![it] = tmp]
    /\ dst' = tmp
    /\ ppc' = "write"
    /\ UNCHANGED <<m_head, refCnt, content, src, first, it, tmp, probes,
                   obsSlot, obsCnt, quiet, freeAtStart, pubHist, rdVars>>
    /\ UNCHANGED <<dataAtStart, tmpCnt>>

\* std::swap(*first, *it): *it = tmp;  then return *first
initUpdateSwap2 ==
    /\ ppc = "iu_swap2"
    /\ m_data' = [m_data EXCEPT ![it] = tmp]
    /\ dst' = m_data'[first]
    /\ ppc' = "write"
    /\ UNCHANGED <<m_head, refCnt, content, src, first, it, tmp, probes,
                   obsSlot, obsCnt, quiet, freeAtStart, pubHist, rdVars>>
    /\ UNCHANGED <<dataAtStart, tmpCnt>>

\* the caller's step between initUpdate and commitUpdate: a copy of *src
\* (copy constructor) is mutated and assigned to *dst (operator=)
NewVal(v) == v + 1
writeSlot ==
    /\ ppc = "write"
    /\ content' = [content EXCEPT ![dst] = NewVal(content[src])]
    /\ ppc' = "commit"
    /\ first' = 0
    /\ it' = 0
    /\ tmp' = NoSlot
    /\ probes' = 0
    /\ obsSlot' = NoSlot
    /\ obsCnt' = 0
    /\ quiet' = FALSE
    /\ freeAtStart' = FALSE
    /\ tmpCnt' = ItemCopy(refCnt[src])
    /\ refCnt' = [refCnt EXCEPT ![dst] = ItemAssign(refCnt[dst], tmpCnt')]
    /\ dataAtStart' = m_data
    /\ UNCHANGED <<m_data, m_head, src, dst, pubHist, rdVars>>

\* a commitUpdate that adds 2
commitUpdateByTwo ==
    /\ ppc = "commit"
    /\ m_head + 1 < MaxCommits
    /\ m_head' = m_head + 2
    /\ ppc' = "idle"
    /\ src' = NoSlot
    /\ dst' = NoSlot
    /\ pubHist' = Append(pubHist, content[dst])
    /\ UNCHANGED <<m_data, refCnt, content, first, it, tmp, probes,
                   obsSlot, obsCnt, quiet, freeAtStart, rdVars>>
    /\ tmpCnt' = 0
    /\ UNCHANGED dataAtStart

\* commitUpdate(): m_head.fetch_add(1)
commitUpdate ==
    /\ ppc = "commit"
    /\ m_head < MaxCommits
    /\ m_head' = m_head + 1
    /\ ppc' = "idle"
    /\ src' = NoSlot
    /\ dst' = NoSlot
    /\ pubHist' = Append(pubHist, content[dst])
    /\ UNCHANGED <<m_data, refCnt, content, first, it, tmp, probes,
                   obsSlot, obsCnt, quiet, freeAtStart, rdVars>>
    /\ tmpCnt' = 0
    /\ UNCHANGED dataAtStart

----------------------------------------------------------------------------
\* Readers

\* read(): ptr{nullptr}; curHead = m_head.load()
readBegin(r) ==
    /\ rpc[r] = "idle"
    /\ curHead' = [curHead EXCEPT ![r] = m_head]
    /\ startHead' = [startHead EXCEPT ![r] = m_head]
    /\ retries' = [retries EXCEPT ![r] = 0]
    /\ rpc' = [rpc EXCEPT ![r] = "rd_data"]
    /\ UNCHANGED <<m_data, m_head, refCnt, content, pubVars, oldHead, rawP, ptr, heldVal, retHead>>
    /\ incs' = [incs EXCEPT ![r] = 0]
    /\ decs' = [decs EXCEPT ![r] = 0]

\* read(): T *rawP{m_data[curHead&(BUFSZ-1)]}
readData(r) ==
    /\ rpc[r] = "rd_data"
    /\ rawP' = [rawP EXCEPT ![r] = m_data[Mask(curHead[r])]]
    /\ rpc' = [rpc EXCEPT ![r] = "rd_acq"]
    /\ UNCHANGED <<m_data, m_head, refCnt, content, pubVars, curHead, oldHead, ptr,
                   startHead, retries, heldVal, retHead>>
    /\ UNCHANGED <<incs, decs>>

\* read(): rawP->acquire()
readAcquire(r) ==
    /\ rpc[r] = "rd_acq"
    /\ refCnt' = acquire(refCnt, rawP[r])
    /\ quiet' = FALSE
    /\ rpc' = [rpc EXCEPT ![r] = "rd_reset"]
    /\ UNCHANGED <<m_data, m_head, content, ppc, src, dst, first, it, tmp, probes,
                   obsSlot, obsCnt, freeAtStart, pubHist, curHead, oldHead, rawP, ptr,
                   startHead, retries, heldVal, retHead>>
    /\ incs' = [incs EXCEPT ![r] = @ + 1]
    /\ UNCHANGED <<decs, dataAtStart, tmpCnt>>

\* read(): ptr.reset(rawP) (the deleter releases the previous candidate); oldHead = curHead
readReset(r) ==
    /\ rpc[r] = "rd_reset"
    /\ IF ptr[r] # NoSlot
       THEN /\ refCnt' = release(refCnt, ptr[r])
            /\ quiet' = FALSE
       ELSE UNCHANGED <<refCnt, quiet>>
    /\ ptr' = [ptr EXCEPT ![r] = rawP[r]]
    /\ oldHead' = [oldHead EXCEPT ![r] = curHead[r]]
    /\ rpc' = [rpc EXCEPT ![r] = "rd_check"]
    /\ UNCHANGED <<m_data, m_head, content, ppc, src, dst, first, it, tmp, probes,
                   obsSlot, obsCnt, freeAtStart, pubHist, curHead, rawP, startHead,
                   retries, heldVal, retHead>>
    /\ decs' = [decs EXCEPT ![r] = IF ptr[r] # NoSlot THEN @ + 1 ELSE @]
    /\ UNCHANGED <<incs, dataAtStart, tmpCnt>>

\* a loop condition that never sees a changed head: < oldHead
RetryNever(new, old) == new < old
\* a loop condition that also retries on an unchanged head: >= oldHead
RetryAlways(new, old) == new >= old
\* the loop condition of read(): (curHead = m_head.load()) != oldHead
Retry(new, old) == new # old

\* read(): while ((curHead = m_head.load()) != oldHead); return ptr
\* (curHead, oldHead and rawP go out of scope at the return)
readCheck(r) ==
    /\ rpc[r] = "rd_check"
    /\ IF Retry(m_head, oldHead[r])
       THEN /\ rpc' = [rpc EXCEPT ![r] = "rd_data"]
            /\ curHead' = [curHead EXCEPT ![r] = m_head]
            /\ retries' = [retries EXCEPT ![r] = @ + 1]
            /\ UNCHANGED <<heldVal, oldHead, rawP, retHead>>
       ELSE /\ rpc' = [rpc EXCEPT ![r] = "holding"]
            /\ heldVal' = [heldVal EXCEPT ![r] = content[ptr[r]]]
            /\ retHead' = [retHead EXCEPT ![r] = m_head]
            /\ curHead' = [curHead EXCEPT ![r] = 0]
            /\ oldHead' = [oldHead EXCEPT ![r] = 0]
            /\ rawP' = [rawP EXCEPT ![r] = NoSlot]
            /\ UNCHANGED retries
    /\ UNCHANGED <<m_data, m_head, refCnt, content, pubVars, ptr, startHead>>
    /\ UNCHANGED <<incs, decs>>

\* the handle's deleter: ptr->release()
releaseHandle(r) ==
    /\ rpc[r] = "holding"
    /\ refCnt' = release(refCnt, ptr[r])
    /\ quiet' = FALSE
    /\ ptr' = [ptr EXCEPT ![r] = NoSlot]
    /\ rpc' = [rpc EXCEPT ![r] = "idle"]
    /\ startHead' = [startHead EXCEPT ![r] = 0]
    /\ retries' = [retries EXCEPT ![r] = 0]
    /\ heldVal' = [heldVal EXCEPT ![r] = 0]
    /\ retHead' = [retHead EXCEPT ![r] = 0]
    /\ UNCHANGED <<m_data, m_head, content, ppc, src, dst, first, it, tmp, probes,
                   obsSlot, obsCnt, freeAtStart, pubHist, curHead, oldHead, rawP>>
    /\ incs' = [incs EXCEPT ![r] = 0]
    /\ decs' = [decs EXCEPT ![r] = 0]
    /\ UNCHANGED <<dataAtStart, tmpCnt>>

Next ==
    \/ publisherRead
    \/ initUpdateBegin
    \/ initUpdateFirst
    \/ initUpdateScan
    \/ initUpdateSwap1
    \/ initUpdateSwap2
    \/ writeSlot
    \/ commitUpdate
    \/ \E r \in Readers : readBegin(r)
    \/ \E r \in Readers : readData(r)
    \/ \E r \in Readers : readAcquire(r)
    \/ \E r \in Readers : readReset(r)
    \/ \E r \in Readers : readCheck(r)
    \/ \E r \in Readers : releaseHandle(r)

Spec == Init /\ [][Next]_vars

\* the steps of the publisher thread
PublisherStep ==
    \/ publisherRead
    \/ initUpdateBegin
    \/ initUpdateFirst
    \/ initUpdateScan
    \/ initUpdateSwap1
    \/ initUpdateSwap2
    \/ writeSlot
    \/ commitUpdate

\* the steps of a reader thread that is inside read() or holds a handle
ReaderStep(r) ==
    \/ readData(r)
    \/ readAcquire(r)
    \/ readReset(r)
    \/ readCheck(r)
    \/ releaseHandle(r)

\* every thread that can take a step is eventually scheduled, and a reader
\* eventually releases the handle it holds
FairSpec ==
    /\ Init
    /\ [][Next]_vars
    /\ WF_vars(PublisherStep)
    /\ \A r \in Readers : WF_vars(ReaderStep(r))

----------------------------------------------------------------------------
\* Shorthands used by the properties

Holding(r) == rpc[r] = "holding"
InRead(r) == rpc[r] \in {"rd_data", "rd_acq", "rd_reset", "rd_check"}
InInitUpdate == ppc \in {"iu_first", "iu_scan", "iu_swap1", "iu_swap2"}
\* initUpdate has returned dst and commitUpdate has not run yet
InWindow == ppc \in {"write", "commit"}
\* references readers hold on slot s: the unique_ptr's pointee, plus a candidate
\* that was incremented and is not yet stored in the unique_ptr
Refs(s) ==
    Cardinality({r \in Readers : ptr[r] = s})
    + Cardinality({r \in Readers : rpc[r] = "rd_reset" /\ rawP[r] = s})

TypeOK ==
    /\ m_data \in [Positions -> Slots]
    /\ m_head \in 0 .. MaxCommits
    /\ refCnt \in [Slots -> Int]
    /\ Len(pubHist) = m_head + 1

----------------------------------------------------------------------------
\* C1 (as claimed): a slot some reader holds a returned handle on is neither
\* handed out by initUpdate / about to be written by the publisher, nor does the
\* value seen through the handle differ from the value seen when read() returned.
C1_ReuseSafety ==
    \A r \in Readers :
        Holding(r) =>
            /\ content[ptr[r]] = heldVal[r]
            /\ ~(ppc = "write" /\ dst = ptr[r])

\* C2 (as claimed): the value read() returns through its handle is the value
\* that was published for some head index between the call's start and its
\* return, never one superseded before the call started.
C2_ReadReturnsCurrent ==
    \A r \in Readers :
        Holding(r) =>
            \E k \in startHead[r] .. retHead[r] : heldVal[r] = pubHist[k + 1]

\* C3 (as claimed): a read() call that starts after commit i and returns before
\* commit i+1 observes exactly the value committed by cycle i.
C3_NoLostUpdates ==
    \A r \in Readers :
        (Holding(r) /\ startHead[r] = retHead[r]) =>
            heldVal[r] = pubHist[startHead[r] + 1]

\* C4: every slot's count equals the number of references readers hold on it
\* (returned handles plus candidates of running read() calls), is never
\* negative, and is zero for all slots once no reader holds anything.
C4_RefAccounting ==
    /\ \A s \in Slots : refCnt[s] = Refs(s) /\ refCnt[s] >= 0
    /\ (\A r \in Readers : rpc[r] = "idle") => (\A s \in Slots : refCnt[s] = 0)

\* C4 witness: one reader holds a returned handle while another has incremented
\* the same slot as a new candidate and still holds its previous candidate.
C4_Witness ==
    \E r1, r2 \in Readers :
        /\ r1 # r2
        /\ Holding(r1)
        /\ rpc[r2] = "rd_reset"
        /\ rawP[r2] = ptr[r1]
        /\ ptr[r2] \in Slots
        /\ ptr[r2] # rawP[r2]

\* C5 (as claimed): the slot initUpdate returns is never the currently
\* published slot, the one publisherRead returned at the start of the cycle.
C5_PublishedSlotExcluded ==
    ppc = "write" => dst # src

\* C6 (as claimed): from initUpdate's return to commitUpdate the count of the
\* returned slot is zero.
C6_WindowUnreferenced ==
    InWindow => refCnt[dst] = 0

\* C7: under fair scheduling, with NumReaders = BUFSZ - 2 readers that release
\* every handle, every initUpdate call that has started eventually returns.
C7_InitUpdateReturns ==
    InInitUpdate ~> (ppc = "write")

\* C7 witness: initUpdate found the slot after head referenced and is scanning.
C7_Witness ==
    /\ ppc = "iu_scan"
    /\ probes >= 2
    /\ obsCnt # 0

\* C8: if some unpublished slot was free when initUpdate started and no reader
\* changed a count since, initUpdate needs at most BUFSZ-1 probes, and the slot
\* it returns has count zero and is not the published slot.
C8_CapacityBoundary ==
    (quiet /\ freeAtStart) =>
        /\ ppc \in {"iu_first", "iu_scan"} => probes <= BUFSZ - 2
        /\ ppc \in {"iu_swap1", "iu_swap2"} => probes <= BUFSZ - 1
        /\ ppc = "write" =>
            /\ probes <= BUFSZ - 1
            /\ refCnt[dst] = 0
            /\ dst # src

\* C8 witness: initUpdate returned in the quiet case after BUFSZ-1 probes, with
\* the other BUFSZ-2 unpublished slots referenced.
C8_Witness ==
    /\ ppc = "write"
    /\ quiet
    /\ freeAtStart
    /\ probes = BUFSZ - 1
    /\ Cardinality({s \in Slots : refCnt[s] # 0}) = BUFSZ - 2

\* C9: a read() call never retries more often than commits happened since it
\* started, a reader inside read() can always take its next step, and (the
\* publisher committing only MaxCommits times) every read() call returns.
C9_ReadersLockFree ==
    /\ [](\A r \in Readers : InRead(r) => retries[r] <= m_head - startHead[r])
    /\ [](\A r \in Readers : InRead(r) => ENABLED ReaderStep(r))
    /\ \A r \in Readers : InRead(r) ~> Holding(r)

\* C9 witness: a read() call that retried twice has returned.
C9_Witness ==
    \E r \in Readers : Holding(r) /\ retries[r] = 2

\* C10: initUpdate probes position head+1, head+2, ... in order, goes on while
\* the count it reads is nonzero, and returns the slot of the first probe that
\* read zero.
C10_ScanOrder ==
    /\ ppc = "iu_first" => (it = Mask(m_head + 1) /\ first = it /\ probes = 0)
    /\ ppc = "iu_scan" =>
        /\ obsCnt # 0
        /\ probes < MaxProbes => it = Mask(m_head + 1 + probes)
    /\ ppc \in {"iu_swap1", "iu_swap2"} =>
        /\ obsCnt = 0
        /\ probes < MaxProbes => it = Mask(m_head + probes)
    /\ ppc = "iu_swap1" => obsSlot = m_data[it]
    /\ ppc = "write" => (obsCnt = 0 /\ obsSlot = dst)

\* C10 witness: initUpdate returned a slot found by the scan, past head+1.
C10_Witness ==
    /\ ppc = "write"
    /\ probes >= 2
    /\ dst = obsSlot

\* C11: when initUpdate has returned, the returned slot is the handle at
\* position (head+1) mod BUFSZ; if the free slot was found at another position
\* p, the handles at head+1 and p are exchanged relative to the array at the
\* start of the call, and otherwise the array is as it was.
C11_InitUpdatePost ==
    ppc = "write" =>
        /\ first = Mask(m_head + 1)
        /\ dst = m_data[first]
        /\ dst = dataAtStart[it]
        /\ m_data = [dataAtStart EXCEPT ![first] = dataAtStart[it],
                                        ![it] = dataAtStart[first]]
        /\ (probes = 1) => (it = first /\ m_data = dataAtStart)

\* C11 witness: initUpdate has returned after exchanging the handle at head+1
\* with the one at another position.
C11_Witness ==
    /\ ppc = "write"
    /\ it # first
    /\ m_data # dataAtStart
    /\ m_data[it] = dataAtStart[first]

\* the publisher took a step (any of its steps changes ppc or it)
PubStep == <<ppc, it>>' # <<ppc, it>>
\* reader r took a step (any of its steps changes rpc[r])
RdStep(r) == rpc'[r] # rpc[r]

Outstanding(r) == incs[r] - decs[r]

\* C13: read() returns the slot it read at position h mod BUFSZ only if the head
\* was h before the increment and at the re-read; on a changed head the
\* candidate is kept until the next candidate is incremented, then decremented
\* exactly once, and the next iteration uses the re-read head; on return exactly
\* one increment of the call is outstanding.
C13_RetryProtocol ==
    /\ [](\A r \in Readers :
            /\ rpc[r] \in {"rd_data", "rd_acq"} =>
                /\ incs[r] = retries[r]
                /\ Outstanding(r) = (IF retries[r] > 0 THEN 1 ELSE 0)
                /\ (retries[r] > 0) = (ptr[r] # NoSlot)
            /\ rpc[r] = "rd_reset" =>
                /\ incs[r] = retries[r] + 1
                /\ Outstanding(r) = (IF retries[r] > 0 THEN 2 ELSE 1)
            /\ rpc[r] = "rd_check" =>
                /\ incs[r] = retries[r] + 1
                /\ decs[r] = retries[r]
                /\ ptr[r] = rawP[r]
                /\ curHead[r] = oldHead[r]
            /\ Holding(r) =>
                /\ incs[r] = retries[r] + 1
                /\ decs[r] = retries[r]
                /\ ptr[r] \in Slots)
    /\ [][\A r \in Readers :
            /\ (rpc[r] = "rd_data" /\ RdStep(r)) =>
                rawP'[r] = m_data[Mask(curHead[r])]
            /\ (rpc[r] = "rd_reset" /\ RdStep(r)) =>
                /\ oldHead'[r] = curHead[r]
                /\ ptr'[r] = rawP[r]
                /\ refCnt' = (IF ptr[r] # NoSlot
                              THEN [refCnt EXCEPT ![ptr[r]] = @ - 1]
                              ELSE refCnt)
            /\ (rpc[r] = "rd_check" /\ rpc'[r] = "rd_data") =>
                /\ m_head # oldHead[r]
                /\ curHead'[r] = m_head
                /\ refCnt' = refCnt
                /\ ptr'[r] = ptr[r]
            /\ (rpc[r] = "rd_check" /\ rpc'[r] = "holding") =>
                /\ m_head = oldHead[r]
                /\ ptr'[r] = rawP[r]
                /\ refCnt' = refCnt]_vars

\* C13 witness: a read() call has retried, holds its discarded candidate and a
\* new candidate on another slot, and is about to drop the old one.
C13_Witness ==
    \E r \in Readers :
        /\ rpc[r] = "rd_reset"
        /\ retries[r] = 1
        /\ ptr[r] \in Slots
        /\ rawP[r] # ptr[r]
        /\ Outstanding(r) = 2

\* positions whose handle differs from the one at the start of initUpdate
Changed == {p \in Positions : m_data[p] # dataAtStart[p]}

\* C14 (as claimed): a step of initUpdate leaves m_head, all counts, all
\* contents and the handle at position head mod BUFSZ unchanged, and the call
\* changes at most two array entries, none of them at position head mod BUFSZ.
C14_InitUpdateFrame ==
    /\ [](ppc \in {"iu_first", "iu_scan", "iu_swap1", "iu_swap2", "write"} =>
            /\ Cardinality(Changed) <= 2
            /\ Mask(m_head) \notin Changed)
    /\ [][(PubStep /\ ppc \in {"init", "iu_first", "iu_scan", "iu_swap1", "iu_swap2"}) =>
            /\ m_head' = m_head
            /\ refCnt' = refCnt
            /\ content' = content
            /\ m_data'[Mask(m_head)] = m_data[Mask(m_head)]]_vars

\* C15: no step of the publisher (publisherRead, initUpdate, the write of the
\* slot, commitUpdate) changes a reference count, and no step of a reader
\* (read(), release of the handle) changes m_head, m_data or a slot's content.
C15_CountsOnlyByReaders ==
    [][/\ PubStep => refCnt' = refCnt
       /\ \A r \in Readers :
            RdStep(r) => (m_head' = m_head /\ m_data' = m_data /\ content' = content)]_vars

\* C15 witness: the publisher has written a slot that carries a reader's
\* reference, and the reference is still counted.
C15_Witness ==
    /\ ppc = "commit"
    /\ refCnt[dst] > 0
    /\ content[dst] = NewVal(content[src])

\* C16: a copy-constructed item starts with count zero, and the assignment of
\* new contents to the slot from initUpdate leaves every count, the slot's own
\* included, as it was.
C16_CountNotCopied ==
    /\ [](tmpCnt = 0)
    /\ [][(ppc = "write" /\ ppc' = "commit") => refCnt' = refCnt]_vars

\* C16 witness: the publisher copied a referenced head item into a slot that
\* readers incremented, and the two counts differ from each other and from the
\* copy's.
C16_Witness ==
    /\ ppc = "commit"
    /\ tmpCnt = 0
    /\ refCnt[src] > 0
    /\ refCnt[dst] > 0
    /\ refCnt[src] # refCnt[dst]

\* C17: publisherRead returns the slot at position head mod BUFSZ and changes
\* neither m_data, m_head, a count nor a content; called at the start of a cycle,
\* that slot holds the value of the latest commit (the first initial value
\* before any commit).
C17_PublisherRead ==
    /\ [](ppc = "init" =>
            /\ src = m_data[Mask(m_head)]
            /\ content[src] = pubHist[m_head + 1])
    /\ [][(ppc = "idle" /\ ppc' = "init") =>
            /\ src' = m_data[Mask(m_head)]
            /\ UNCHANGED <<m_data, m_head, refCnt, content>>]_vars

\* C17 witness: publisherRead has returned the slot of the third commit while
\* a reader holds a reference on it.
C17_Witness ==
    /\ ppc = "init"
    /\ m_head = 3
    /\ content[src] = 3
    /\ refCnt[src] > 0

\* C18: whenever the publisher is not between the two stores of std::swap,
\* m_data holds every slot at exactly one position.
C18_Permutation ==
    ppc # "iu_swap2" =>
        /\ {m_data[p] : p \in Positions} = Slots
        /\ \A p, q \in Positions : m_data[p] = m_data[q] => p = q

\* C18 witness: a swap has completed and the array is no longer in its
\* construction order.
C18_Witness ==
    /\ ppc = "write"
    /\ \E p \in Positions : m_data[p] # p
    /\ {m_data[p] : p \in Positions} = Slots

RECURSIVE SumOver(_, _)
\* the sum of f[x] for x in S
SumOver(f, S) ==
    IF S = {} THEN 0
    ELSE LET x == CHOOSE y \in S : TRUE IN f[x] + SumOver(f, S \ {x})

\* C19: a read() call holds at most 2 references at any instant and exactly 1
\* once it has returned; the counts of all slots add up to the references the
\* readers hold, hence to at most 2 * NumReaders.
C19_ReadContribution ==
    /\ \A r \in Readers :
        /\ Outstanding(r) \in 0 .. 2
        /\ Holding(r) => Outstanding(r) = 1
    /\ SumOver(refCnt, Slots) = SumOver([r \in Readers |-> Outstanding(r)], Readers)
    /\ SumOver(refCnt, Slots) <= 2 * NumReaders

\* C19 witness: every reader holds its previous candidate and a new one, on
\* two different slots, so the counts add up to 2 * NumReaders.
C19_Witness ==
    /\ \A r \in Readers :
        rpc[r] = "rd_reset" /\ ptr[r] \in Slots /\ ptr[r] # rawP[r]
    /\ SumOver(refCnt, Slots) = 2 * NumReaders

====
